---- MODULE Spec2Model ----
(***************************************************************************)
(* A model of atualizar_espelho.py: the call-level retry (with_retry), the *)
(* error classifier, and the run-level loop of main around run_once, the   *)
(* source-to-destination mirror.  Lengths that only scale the run (the 23  *)
(* mappings, BATCH_ROWS, MAX_ROWS_SCAN) are modelled with small values;    *)
(* the retry counts are the program's own.  Delays are in tenths of a      *)
(* second.  Text is a sequence of one-character strings.                   *)
(***************************************************************************)
EXTENDS Integers, Sequences, FiniteSets, TLC

VARIABLES
    cerr, cres,                 \* classifier: the error given, the answer
    max_tries, attempt, wst,    \* with_retry: parameter, counter, position
    wraised, hist,              \* with_retry: error raised, record of the run
    pc, handles, headers, data_cols, num_rows_data, treated_matrix,
    grid, i, start_row_dst,     \* run_once: position and locals
    pending,                    \* the error leaving run_once
    run_attempt, mainst, mainerr, delays,   \* main
    src, dst,                   \* the two remote sheets
    oplog,                      \* destination calls that succeeded, this attempt
    runno, snapshot             \* successive executions of main

retryVars == <<max_tries, attempt, wst, wraised, hist>>
clsVars   == <<cerr, cres>>
runVars   == <<pc, handles, headers, data_cols, num_rows_data, treated_matrix,
               grid, i, start_row_dst, pending, run_attempt, mainst, mainerr,
               delays, src, dst, oplog, runno, snapshot>>
vars == <<cerr, cres, max_tries, attempt, wst, wraised, hist,
          pc, handles, headers, data_cols, num_rows_data, treated_matrix,
          grid, i, start_row_dst, pending, run_attempt, mainst, mainerr,
          delays, src, dst, oplog, runno, snapshot>>

Min(a, b) == IF a <= b THEN a ELSE b
Max(a, b) == IF a >= b THEN a ELSE b

RECURSIVE Pow2(_)
Pow2(n) == IF n <= 0 THEN 1 ELSE 2 * Pow2(n - 1)

-----------------------------------------------------------------------------
(* Errors.  An APIError carries the status code and the message of the     *)
(* response; any other exception is "exc".                                 *)

NoErr == [kind |-> "none", code |-> 0, msg |-> <<>>]
ApiErr(code, msg) == [kind |-> "api", code |-> code, msg |-> msg]
ExcErr(msg) == [kind |-> "exc", code |-> 0, msg |-> msg]

DigitChars == <<"0", "1", "2", "3", "4", "5", "6", "7", "8", "9">>

\* str(n) of a three-digit status code
CodeText(n) == << DigitChars[(n \div 100) + 1],
                  DigitChars[((n \div 10) % 10) + 1],
                  DigitChars[(n % 10) + 1] >>

\* str(e): the rendered form of an APIError, "[code]: message"
ErrText(e) == <<"[">> \o CodeText(e.code) \o <<"]", ":", " ">> \o e.msg

\* Python's `sub in s` on text
Contains(s, sub) ==
    \E k \in 0..(Len(s) - Len(sub)) :
        \A j \in 1..Len(sub) : s[k + j] = sub[j]

RetryCodeTexts == { <<"4","2","9">>, <<"5","0","0">>, <<"5","0","2">>, <<"5","0","3">> }

is_retryable_api_error(e) ==
    \E code \in RetryCodeTexts : Contains(ErrText(e), code)

-----------------------------------------------------------------------------
(* with_retry: one pass of the loop body per invocation of call.           *)

DEFAULT_MAX_TRIES == 9
RETRY_BASE == 8
RETRY_CAP == 120
UNEXPECTED_TRIES == 3
FLAT_DELAY == 10
JITTER_MAX == 4

\* a slip: the exponent is one too large
BackoffDelay_late(att, base, cap) == Min(cap, base * Pow2(att))

\* delay (without jitter) of the sleep after a retryable APIError
BackoffDelay(att, base, cap) == Min(cap, base * Pow2(att - 1))

\* a slip: `and` for `or`
ApiRaises_and(e, att, mt) == ~is_retryable_api_error(e) /\ att >= mt

\* a slip: `>` for `>=`
ApiRaises_gt(e, att, mt) == ~is_retryable_api_error(e) \/ att > mt

\* the `except APIError` branch: TRUE when the error is re-raised
ApiRaises(e, att, mt) == ~is_retryable_api_error(e) \/ att >= mt

\* a slip: `>` for `>=`
ExcRaises_gt(att, mt) == att > Min(UNEXPECTED_TRIES, mt)

\* the `except Exception` branch: TRUE when the error is re-raised
ExcRaises(att, mt) == att >= Min(UNEXPECTED_TRIES, mt)

Raises(e, att, mt) ==
    IF e.kind = "api" THEN ApiRaises(e, att, mt) ELSE ExcRaises(att, mt)

SleepDelay(e, att) ==
    IF e.kind = "api" THEN BackoffDelay(att, RETRY_BASE, RETRY_CAP) ELSE FLAT_DELAY

-----------------------------------------------------------------------------
(* Cell values: text, or a number m / 10^e (an int has e = 0).             *)

Str(s) == [t |-> "str", s |-> s, m |-> 0, e |-> 0]
IntV(n) == [t |-> "int", s |-> <<>>, m |-> n, e |-> 0]
EmptyStr == Str(<<>>)

RECURSIVE Normalize(_, _)
Normalize(m, e) ==
    IF e > 0 /\ m % 10 = 0 THEN Normalize(m \div 10, e - 1)
    ELSE [t |-> "float", s |-> <<>>, m |-> m, e |-> e]

FloatV(m, e) == Normalize(m, e)

IsNumber(v) == v.t \in {"int", "float"}

IsDigit(c) == \E k \in 1..10 : DigitChars[k] = c
DigitVal(c) == (CHOOSE k \in 1..10 : DigitChars[k] = c) - 1

RECURSIVE Filter(_, _)
Filter(s, keep) ==
    IF s = <<>> THEN <<>>
    ELSE (IF Head(s) \in keep THEN <<Head(s)>> ELSE <<>>) \o Filter(Tail(s), keep)

RECURSIVE Replace(_, _, _)
Replace(s, old, new) ==
    IF s = <<>> THEN <<>>
    ELSE (IF Head(s) = old THEN new ELSE <<Head(s)>>) \o Replace(Tail(s), old, new)

Count(s, c) == Cardinality({k \in 1..Len(s) : s[k] = c})

Whitespace == {" "}

RECURSIVE LStrip(_)
LStrip(s) == IF s # <<>> /\ Head(s) \in Whitespace THEN LStrip(Tail(s)) ELSE s

RECURSIVE RStrip(_)
RStrip(s) ==
    IF s # <<>> /\ s[Len(s)] \in Whitespace THEN RStrip(SubSeq(s, 1, Len(s) - 1)) ELSE s

\* str.strip()
Strip(s) == LStrip(RStrip(s))

RECURSIVE DigitsValue(_)
DigitsValue(s) ==
    IF s = <<>> THEN 0 ELSE 10 * DigitsValue(SubSeq(s, 1, Len(s) - 1)) + DigitVal(s[Len(s)])

AllDigits(s) == \A k \in 1..Len(s) : IsDigit(s[k])

\* the ValueError of float(s)
ParseFailed == [t |-> "fail", s |-> <<>>, m |-> 0, e |-> 0]

\* float(s) on text of digits, dots and minus signs: [-]digits[.digits],
\* with a digit on at least one side of the dot
ParseFloat(s) ==
    LET neg  == s # <<>> /\ Head(s) = "-"
        body == IF neg THEN Tail(s) ELSE s
        nd   == Filter(body, {"."})
        digs == Filter(body, {c \in {"0","1","2","3","4","5","6","7","8","9"} : TRUE})
        dot  == IF nd = <<>> THEN Len(body) + 1
                ELSE CHOOSE k \in 1..Len(body) : body[k] = "."
        ok   == /\ Len(nd) <= 1
                /\ Len(digs) >= 1
                /\ Len(digs) + Len(nd) = Len(body)
        mag  == DigitsValue(digs)
    IN IF ~ok THEN ParseFailed
       ELSE FloatV(IF neg THEN 0 - mag ELSE mag, Len(body) - Min(dot, Len(body)))

CurrencyChars == {"0","1","2","3","4","5","6","7","8","9",",",".","-"}

\* a slip: the ValueError of float(s) is not caught
clean_currency_uncaught(value) ==
    IF value = EmptyStr THEN EmptyStr
    ELSE IF IsNumber(value) THEN FloatV(value.m, value.e)
    ELSE LET s0 == Filter(Strip(value.s), CurrencyChars)
             s1 == IF Count(s0, ",") > 0 /\ Count(s0, ".") > 0
                   THEN Replace(Filter(s0, CurrencyChars \ {"."}), ",", <<".">>)
                   ELSE IF Count(s0, ",") > 0
                   THEN Replace(s0, ",", <<".">>)
                   ELSE s0
         IN ParseFloat(s1)

clean_currency(value) ==
    IF value = EmptyStr THEN EmptyStr
    ELSE IF IsNumber(value) THEN FloatV(value.m, value.e)
    ELSE LET s0 == Filter(Strip(value.s), CurrencyChars)
             s1 == IF Count(s0, ",") > 0 /\ Count(s0, ".") > 0
                   THEN Replace(Filter(s0, CurrencyChars \ {"."}), ",", <<".">>)
                   ELSE IF Count(s0, ",") > 0
                   THEN Replace(s0, ",", <<".">>)
                   ELSE s0
             f  == ParseFloat(s1)
         IN IF f = ParseFailed THEN EmptyStr ELSE f

\* date arithmetic of datetime.date
IsLeap(y) == y % 4 = 0 /\ (y % 100 # 0 \/ y % 400 = 0)
DaysInMonth(y, mo) ==
    IF mo = 2 THEN (IF IsLeap(y) THEN 29 ELSE 28)
    ELSE IF mo \in {4, 6, 9, 11} THEN 30 ELSE 31
RECURSIVE DaysBeforeMonth(_, _)
DaysBeforeMonth(y, mo) ==
    IF mo <= 1 THEN 0 ELSE DaysBeforeMonth(y, mo - 1) + DaysInMonth(y, mo - 1)
ToOrdinal(y, mo, d) ==
    (y - 1) * 365 + ((y - 1) \div 4) - ((y - 1) \div 100) + ((y - 1) \div 400)
        + DaysBeforeMonth(y, mo) + d

\* date(1899, 12, 30).toordinal()
EpochOrdinal == ToOrdinal(1899, 12, 30)

\* s split at each sep
RECURSIVE Split(_, _)
Split(s, sep) ==
    IF \A k \in 1..Len(s) : s[k] # sep THEN <<s>>
    ELSE LET p == CHOOSE k \in 1..Len(s) : s[k] = sep /\ \A j \in 1..(k - 1) : s[j] # sep
         IN <<SubSeq(s, 1, p - 1)>> \o Split(SubSeq(s, p + 1, Len(s)), sep)

\* the fields of strptime's directives
DayField(f)   == AllDigits(f) /\ Len(f) \in {1, 2} /\ DigitsValue(f) \in 1..31
                 /\ (Len(f) = 2 \/ f[1] # "0")
MonthField(f) == AllDigits(f) /\ Len(f) \in {1, 2} /\ DigitsValue(f) \in 1..12
                 /\ (Len(f) = 2 \/ f[1] # "0")
Year4Field(f) == AllDigits(f) /\ Len(f) = 4
Year2Field(f) == AllDigits(f) /\ Len(f) = 2
Century(y2)   == IF y2 < 69 THEN 2000 + y2 ELSE 1900 + y2

\* datetime.strptime(s, fmt).date() for one format: <<y, m, d>>, or <<>> for ValueError.
\* order of the fields is "dmy" or "ymd"; year2 is %y for %Y
TryFormat(s, sep, order, year2) ==
    LET p == Split(s, sep)
    IN IF Len(p) # 3 THEN <<>>
       ELSE LET df == IF order = "dmy" THEN p[1] ELSE p[3]
                yf == IF order = "dmy" THEN p[3] ELSE p[1]
                mf == p[2]
                fieldsOk == /\ DayField(df) /\ MonthField(mf)
                            /\ IF year2 THEN Year2Field(yf) ELSE Year4Field(yf)
            IN IF ~fieldsOk THEN <<>>
               ELSE LET y == IF year2 THEN Century(DigitsValue(yf)) ELSE DigitsValue(yf)
                        mo == DigitsValue(mf)
                        d == DigitsValue(df)
                    IN IF y >= 1 /\ d <= DaysInMonth(y, mo) THEN <<y, mo, d>> ELSE <<>>

\* the first of the four formats that parses, in the order of the loop
ParseDate(s) ==
    LET f1 == TryFormat(s, "/", "dmy", FALSE)
        f2 == TryFormat(s, "-", "ymd", FALSE)
        f3 == TryFormat(s, "-", "dmy", FALSE)
        f4 == TryFormat(s, "/", "dmy", TRUE)
    IN IF f1 # <<>> THEN f1
       ELSE IF f2 # <<>> THEN f2
       ELSE IF f3 # <<>> THEN f3
       ELSE f4

to_gs_serial(dt) ==
    IF dt = EmptyStr THEN EmptyStr
    ELSE IF IsNumber(dt) THEN dt
    ELSE LET s == Strip(dt.s)
         IN IF s = <<>> THEN EmptyStr
            ELSE LET pd == ParseDate(s)
                 IN IF pd = <<>> THEN EmptyStr
                    ELSE FloatV(ToOrdinal(pd[1], pd[2], pd[3]) - EpochOrdinal, 0)

\* one cell of a treated row, by the mapping's type
Coerce(tipo, v) ==
    IF tipo = "valor" THEN clean_currency(v)
    ELSE IF tipo = "data" THEN (IF IsNumber(v) THEN v ELSE to_gs_serial(v))
    ELSE v

\* a slip: only the empty string counts as blank
IsBlank_emptyonly(v) == v = EmptyStr

\* `x == "" or str(x).strip() == ""`
IsBlank(v) == v = EmptyStr \/ (v.t = "str" /\ Strip(v.s) = <<>>)

-----------------------------------------------------------------------------
(* Column letters and A1 ranges.                                           *)

Letters == <<"A","B","C","D","E","F","G","H","I","J","K","L","M",
             "N","O","P","Q","R","S","T","U","V","W","X","Y","Z">>
LetterIndex(ch) == CHOOSE k \in 1..26 : Letters[k] = ch

RECURSIVE col_letter_to_index_from(_, _)
col_letter_to_index_from(col, out) ==
    IF col = <<>> THEN out
    ELSE col_letter_to_index_from(Tail(col), out * 26 + LetterIndex(Head(col)))

col_letter_to_index(col) == col_letter_to_index_from(col, 0)

RECURSIVE index_to_col_letter_from(_, _)
index_to_col_letter_from(n, s) ==
    IF n = 0 THEN s
    ELSE index_to_col_letter_from((n - 1) \div 26, <<Letters[((n - 1) % 26) + 1]>> \o s)

index_to_col_letter(n) == index_to_col_letter_from(n, <<>>)

a1_range(start_col, start_row, end_col, end_row) ==
    [c1 |-> start_col, r1 |-> start_row, c2 |-> end_col, r2 |-> end_row]

-----------------------------------------------------------------------------
(* Configuration.  MAPPINGS keeps one mapping of each type of the 23, with *)
(* destination columns B onwards; BATCH_ROWS and MAX_ROWS_SCAN are small.  *)

MAPPINGS == <<
    [src |-> <<"A","C">>, dst |-> <<"B">>, tipo |-> "texto"],
    [src |-> <<"Q">>,     dst |-> <<"C">>, tipo |-> "data"],
    [src |-> <<"J">>,     dst |-> <<"D">>, tipo |-> "valor"] >>
NMap == Len(MAPPINGS)

DEST_START_COL == <<"B">>
DEST_END_COL == <<"D">>
DEST_HEADER_ROW == 2
DEST_DATA_START_ROW == 3
BATCH_ROWS == 2         \* stands for 3000: rows per data update
MAX_ROWS_SCAN == 5      \* stands for 120000: rows read per column
MAX_RUN_TRIES == 3
RUN_DELAY_API == 50
RUN_DELAY_EXC == 30

-----------------------------------------------------------------------------
(* The remote sheets.  The source is its header cells and its data columns *)
(* from the first data row down, one per mapping; the destination is a     *)
(* grid of cells.                                                          *)

\* wks_src.get of one cell: no rows at all for an empty cell
GetCell(s, k) == IF s.hdr[k] = EmptyStr THEN <<>> ELSE << <<s.hdr[k]>> >>

\* `vals[0][0] if (vals and vals[0]) else ""`
HeaderOf(vals) == IF vals # <<>> /\ vals[1] # <<>> THEN vals[1][1] ELSE EmptyStr

RECURSIVE TrimEmptyTail(_)
TrimEmptyTail(col) ==
    IF col # <<>> /\ col[Len(col)] = EmptyStr
    THEN TrimEmptyTail(SubSeq(col, 1, Len(col) - 1)) ELSE col

\* a slip: the ranges have no last row
BatchGet_unbounded(s, scan) ==
    [k \in 1..NMap |->
        LET seen == TrimEmptyTail(s.cols[k])
        IN [r \in 1..Len(seen) |-> IF seen[r] = EmptyStr THEN <<>> ELSE <<seen[r]>>]]

\* wks.batch_get of the ranges {col}4:{col}{end_row_guess}: per range the rows
\* down to the last non-empty one, an empty cell being a row with no cell
BatchGet(s, scan) ==
    [k \in 1..NMap |->
        LET seen == TrimEmptyTail(SubSeq(s.cols[k], 1, Min(scan, Len(s.cols[k]))))
        IN [r \in 1..Len(seen) |-> IF seen[r] = EmptyStr THEN <<>> ELSE <<seen[r]>>]]

\* `[row[0] if row else "" for row in col_vals_raw]`
Flat(col_vals_raw) ==
    [r \in 1..Len(col_vals_raw) |->
        IF col_vals_raw[r] # <<>> THEN col_vals_raw[r][1] ELSE EmptyStr]

\* the normalisation loop over MAPPINGS
NormalizeBatch(batch) ==
    [k \in 1..NMap |-> IF k <= Len(batch) THEN Flat(batch[k]) ELSE <<>>]

RECURSIVE TrimBlankTail(_)
TrimBlankTail(v) ==
    IF v # <<>> /\ IsBlank(v[Len(v)])
    THEN TrimBlankTail(SubSeq(v, 1, Len(v) - 1)) ELSE v

RECURSIVE MaxTrimmedLen(_, _, _)
MaxTrimmedLen(cols_dict, k, max_len) ==
    IF k > Len(cols_dict) THEN max_len
    ELSE MaxTrimmedLen(cols_dict, k + 1, Max(max_len, Len(TrimBlankTail(cols_dict[k]))))

calc_num_rows_from_columns(cols_dict) == MaxTrimmedLen(cols_dict, 1, 0)

\* the "Tratar tipos" loop
Treat(cols, n) ==
    [r \in 1..n |->
        [k \in 1..NMap |->
            Coerce(MAPPINGS[k].tipo,
                   IF r <= Len(cols[k]) THEN cols[k][r] ELSE EmptyStr)]]

\* a range as the service reads it: rows r1..r2 of columns c1..c2
RangeRows(rng) == rng.r1..rng.r2
RangeCols(rng) == col_letter_to_index(rng.c1)..col_letter_to_index(rng.c2)

InGrid(d, rng) ==
    /\ 1 <= rng.r1 /\ rng.r2 <= d.rows
    /\ 1 <= col_letter_to_index(rng.c1) /\ col_letter_to_index(rng.c2) <= d.cols

\* wks.batch_clear([rng])
ApplyClear(d, rng) ==
    [d EXCEPT !.cells =
        [r \in 1..d.rows |-> [c \in 1..d.cols |->
            IF r \in RangeRows(rng) /\ c \in RangeCols(rng) THEN EmptyStr ELSE d.cells[r][c]]]]

\* wks.update(rng, values, value_input_option="RAW")
ApplyUpdate(d, rng, values) ==
    LET c0 == col_letter_to_index(rng.c1)
    IN [d EXCEPT !.cells =
        [r \in 1..d.rows |-> [c \in 1..d.cols |->
            IF /\ r - rng.r1 + 1 \in 1..Len(values)
               /\ c - c0 + 1 \in 1..Len(values[r - rng.r1 + 1])
            THEN values[r - rng.r1 + 1][c - c0 + 1]
            ELSE d.cells[r][c]]]]

\* wks.add_rows(n)
ApplyAddRows(d, n) ==
    [d EXCEPT !.rows = d.rows + n,
              !.cells = [r \in 1..(d.rows + n) |->
                            IF r <= d.rows THEN d.cells[r]
                            ELSE [c \in 1..d.cols |-> EmptyStr]]]

\* a slip: the last row of the grid is left out
ClearRange_short(rows, cols) == a1_range(<<"A">>, 1, index_to_col_letter(cols), rows - 1)

\* clear_all: the range cleared, from the grid size just read
ClearRange(rows, cols) == a1_range(<<"A">>, 1, index_to_col_letter(cols), rows)

\* a slip: the header row is not counted
EndRow_short(hdrs, n) == Max(DEST_DATA_START_ROW, DEST_HEADER_ROW) + n - 1

\* run_once: the row auto_expand_rows is asked for
EndRow(hdrs, n) ==
    Max(DEST_DATA_START_ROW, DEST_HEADER_ROW) + ((IF hdrs # <<>> THEN 1 ELSE 0) + n) - 1

\* a slip: one row too few is asked for
RowsToAdd_short(needed_rows, rows) == needed_rows - rows - 1

\* auto_expand_rows: `needed_rows - rows`
RowsToAdd(needed_rows, rows) == needed_rows - rows

\* the range of the header write
HeaderRange == a1_range(DEST_START_COL, DEST_HEADER_ROW, DEST_END_COL, DEST_HEADER_ROW)

\* a slip: one row too many in a batch
Chunk_long(tm, k) == SubSeq(tm, k + 1, Min(k + BATCH_ROWS + 1, Len(tm)))

\* `treated_matrix[i:i+BATCH_ROWS]`
Chunk(tm, k) == SubSeq(tm, k + 1, Min(k + BATCH_ROWS, Len(tm)))

\* a slip: the next batch starts on the last row of this one
NextStartRow_overlap(chunk_end) == chunk_end

\* `start_row_dst = chunk_end + 1`
NextStartRow(chunk_end) == chunk_end + 1

\* a slip: every failure restarts the run
MainRestarts_always(e, att) == att < MAX_RUN_TRIES

\* a slip: one restart more
MainRestarts_more(e, att) ==
    IF e.kind = "api" THEN is_retryable_api_error(e) /\ att <= MAX_RUN_TRIES
    ELSE att <= MAX_RUN_TRIES

\* main: TRUE when the except branch sleeps and continues
MainRestarts(e, att) ==
    IF e.kind = "api" THEN is_retryable_api_error(e) /\ att < MAX_RUN_TRIES
    ELSE att < MAX_RUN_TRIES

\* a slip: the attempt number is left out
RunDelay_flat(e, att) == IF e.kind = "api" THEN RUN_DELAY_API ELSE RUN_DELAY_EXC

\* main: the delay before the restart, without jitter
RunDelay(e, att) == IF e.kind = "api" THEN RUN_DELAY_API * att ELSE RUN_DELAY_EXC

-----------------------------------------------------------------------------
(* Bounds of the model.                                                    *)

MaxMsgLen == 4      \* longest error message of the classifier's inputs
MaxTries == 6       \* largest max_tries given to with_retry on its own
MaxSrcRows == 6     \* most data rows of the source (beyond MAX_ROWS_SCAN)
MaxDstRows == 9     \* most rows of the destination grid before the run
MaxColLen == 3      \* longest column given to calc_num_rows_from_columns on its own
MaxRawLen == 3      \* longest of the enumerated raw cell texts given to the coercions

MsgChars == {"0", "1", "5"}
StatusCodes == {400, 403, 404, 429, 500, 502, 503, 504}
RetryStatusCodes == {429, 500, 502, 503}

Msgs == UNION { [1..k -> MsgChars] : k \in 0..MaxMsgLen }

\* the errors a remote call raises in the retry and run models
E503 == ApiErr(503, <<>>)
E429 == ApiErr(429, <<>>)
E400 == ApiErr(400, <<>>)
E404 == ApiErr(404, <<>>)
EConn == ExcErr(<<"c">>)
ETime == ExcErr(<<"t">>)
RaisedErrors == {E503, E429, E400, E404, EConn, ETime}
Jitters == {0, JITTER_MAX}

-----------------------------------------------------------------------------
(* Values at rest while another part of the program is examined.           *)

HistInit == [calls |-> 0, oks |-> 0, fails |-> 0, nUnexp |-> 0, nRetryable |-> 0,
             lastFail |-> NoErr, lastWasOk |-> FALSE,
             sleeps |-> 0, delay |-> 0, jitter |-> 0, backoffs |-> <<>>]

ClsIdle == cerr = NoErr /\ cres = "none"

RetryIdle ==
    /\ max_tries = DEFAULT_MAX_TRIES
    /\ wst = "idle"
    /\ wraised = NoErr
    /\ hist = HistInit

RunIdle ==
    /\ pc = "idle"
    /\ handles = {}
    /\ headers = <<>>
    /\ data_cols = <<>>
    /\ num_rows_data = 0
    /\ treated_matrix = <<>>
    /\ grid = <<0, 0>>
    /\ i = 0
    /\ start_row_dst = 0
    /\ pending = NoErr
    /\ run_attempt = 0
    /\ mainst = "idle"
    /\ mainerr = NoErr
    /\ delays = <<>>
    /\ src = <<>>
    /\ dst = <<>>
    /\ oplog = <<>>
    /\ runno = 0
    /\ snapshot = <<>>

-----------------------------------------------------------------------------
(* The classifier on its own.                                              *)

InitClassify ==
    /\ cerr \in { ApiErr(c, m) : c \in StatusCodes, m \in Msgs }
    /\ cres = "none"
    /\ RetryIdle /\ attempt = 1
    /\ RunIdle

Classify ==
    /\ cres = "none"
    /\ cres' = IF is_retryable_api_error(cerr) THEN "retryable" ELSE "nonretryable"
    /\ UNCHANGED <<cerr, retryVars, runVars>>

NextClassify == Classify

SpecClassify == InitClassify /\ [][NextClassify]_vars

-----------------------------------------------------------------------------
(* with_retry on its own: call is any callable, each invocation returns or *)
(* raises.                                                                 *)

InitRetry ==
    /\ max_tries \in 1..MaxTries
    /\ attempt = 1
    /\ wst = "running"
    /\ wraised = NoErr
    /\ hist = HistInit
    /\ ClsIdle
    /\ RunIdle

\* `return call()`
CallReturns ==
    /\ wst = "running"
    /\ wst' = "returned"
    /\ hist' = [hist EXCEPT !.calls = @ + 1, !.oks = @ + 1, !.lastWasOk = TRUE]
    /\ UNCHANGED <<max_tries, attempt, wraised, clsVars, runVars>>

\* call() raises e: the matching except branch
CallRaises(e, jit) ==
    /\ wst = "running"
    /\ LET h == [hist EXCEPT !.calls = @ + 1, !.fails = @ + 1, !.lastFail = e,
                             !.lastWasOk = FALSE,
                             !.nUnexp = IF e.kind = "exc" THEN @ + 1 ELSE @,
                             !.nRetryable = IF e.kind = "api" /\ is_retryable_api_error(e)
                                            THEN @ + 1 ELSE @]
       IN IF Raises(e, attempt, max_tries)
          THEN /\ wst' = "raised"
               /\ wraised' = e
               /\ hist' = h
               /\ UNCHANGED attempt
          ELSE /\ attempt' = attempt + 1
               /\ hist' = [h EXCEPT !.sleeps = @ + 1, !.delay = SleepDelay(e, attempt),
                                    !.jitter = jit,
                                    !.backoffs = IF e.kind = "api"
                                                 THEN Append(@, <<h.calls, SleepDelay(e, attempt)>>)
                                                 ELSE @]
               /\ UNCHANGED <<wst, wraised>>
    /\ UNCHANGED <<max_tries, clsVars, runVars>>

NextRetry ==
    \/ CallReturns
    \/ \E e \in RaisedErrors, jit \in Jitters : CallRaises(e, jit)

SpecRetry == InitRetry /\ [][NextRetry]_vars

-----------------------------------------------------------------------------
(* The sheets a run starts from.                                           *)

A(c) == Str(<<c>>)
SampleText == << A("a"), A("b") >>
SampleDate == << Str(<<"1","5","/","0","1","/","2","0","2","4">>), IntV(45000) >>
SampleValor == << Str(<<"1",".","2","3","4",",","5","6">>), IntV(1500) >>
Blank == A(" ")

SampleCell(k, r) ==
    LET smp == IF MAPPINGS[k].tipo = "texto" THEN SampleText
               ELSE IF MAPPINGS[k].tipo = "data" THEN SampleDate ELSE SampleValor
    IN smp[(r % 2) + 1]

\* n rows, every cell filled
SourceFull(n) ==
    [hdr |-> [k \in 1..NMap |-> A("h")],
     cols |-> [k \in 1..NMap |-> [r \in 1..n |-> SampleCell(k, r)]]]

\* columns of different lengths, the longest ending in a cell of spaces
SourceRagged(n) ==
    [hdr |-> [k \in 1..NMap |-> IF k = 2 THEN EmptyStr ELSE A("h")],
     cols |-> [k \in 1..NMap |->
                 IF k = 1 THEN [r \in 1..(n - 1) |-> SampleCell(k, r)]
                 ELSE IF k = 2 THEN [r \in 1..n |-> IF r = n THEN Blank ELSE SampleCell(k, r)]
                 ELSE <<>>]]

\* empty cells above the last row
SourceHoles(n) ==
    [hdr |-> [k \in 1..NMap |-> IntV(7)],
     cols |-> [k \in 1..NMap |->
                 IF k = 1 THEN [r \in 1..n |-> IF r = n THEN SampleCell(k, r) ELSE EmptyStr]
                 ELSE IF k = 3 THEN [r \in 1..Min(n, 1) |-> A("x")]
                 ELSE <<>>]]

\* more filled rows than are read, the last row read empty in every column
SourceGap ==
    [hdr |-> [k \in 1..NMap |-> A("h")],
     cols |-> [k \in 1..NMap |->
                 [r \in 1..(MAX_ROWS_SCAN + 2) |->
                     IF r = MAX_ROWS_SCAN THEN EmptyStr ELSE SampleCell(k, r)]]]

Sources ==
    { SourceFull(n) : n \in 0..MaxSrcRows }
        \cup { SourceRagged(n) : n \in {1, 4, MaxSrcRows} }
        \cup { SourceHoles(n) : n \in {3, MaxSrcRows} }
        \cup { SourceGap }

\* what a cell holds before the run
Old == A("o")

DstInit(rows, cols) ==
    [rows |-> rows, cols |-> cols,
     cells |-> [r \in 1..rows |-> [c \in 1..cols |-> Old]]]

\* grids of one row, of the rows above the data, and larger than any run
\* needs, two columns wider than the mapped span; and one too narrow for it
Destinations ==
    { DstInit(rows, NMap + 2) : rows \in {1, DEST_DATA_START_ROW, MaxDstRows} }
        \cup { DstInit(DEST_DATA_START_ROW, NMap) }

-----------------------------------------------------------------------------
(* main and run_once.  Every remote call of run_once goes through          *)
(* with_retry with the default max_tries; one action is one invocation.    *)

RetrySites == {"OPEN_SOURCE", "OPEN_DEST", "READ_HEADERS", "READ_DATA", "CLEAR_META",
               "CLEAR_DEST", "EXPAND_META", "EXPAND_DEST", "WRITE_HEADER", "WRITE_DATA"}

Op(op, rng, n) == [op |-> op, r1 |-> rng.r1, r2 |-> rng.r2, c1 |-> rng.c1, c2 |-> rng.c2, n |-> n]
NoRange == a1_range(<<>>, 0, <<>>, 0)

\* the locals of run_once at its first line
FreshLocals ==
    /\ handles' = {}
    /\ headers' = <<>>
    /\ data_cols' = <<>>
    /\ num_rows_data' = 0
    /\ treated_matrix' = <<>>
    /\ grid' = <<0, 0>>
    /\ i' = 0
    /\ start_row_dst' = 0
    /\ oplog' = <<>>
    /\ attempt' = 1

Init ==
    /\ ClsIdle /\ RetryIdle
    /\ attempt = 1
    /\ pc = "AUTHENTICATE"
    /\ handles = {}
    /\ headers = <<>>
    /\ data_cols = <<>>
    /\ num_rows_data = 0
    /\ treated_matrix = <<>>
    /\ grid = <<0, 0>>
    /\ i = 0
    /\ start_row_dst = 0
    /\ pending = NoErr
    /\ run_attempt = 1
    /\ mainst = "running"
    /\ mainerr = NoErr
    /\ delays = <<>>
    /\ src \in Sources
    /\ dst \in Destinations
    /\ oplog = <<>>
    /\ runno = 1
    /\ snapshot = <<>>

fixedVars == <<clsVars, max_tries, wst, wraised, hist>>

\* credentials and gspread.authorize
Authenticate ==
    /\ pc = "AUTHENTICATE"
    /\ pc' = "OPEN_SOURCE"
    /\ handles' = {"gc"}
    /\ UNCHANGED <<attempt, headers, data_cols, num_rows_data, treated_matrix, grid, i,
                   start_row_dst, pending, run_attempt, mainst, mainerr, delays, src, dst,
                   oplog, runno, snapshot, fixedVars>>

\* the credentials cannot be read: outside any with_retry
AuthenticateFails(e) ==
    /\ pc = "AUTHENTICATE"
    /\ e.kind = "exc"
    /\ pc' = "ABORT"
    /\ pending' = e
    /\ UNCHANGED <<attempt, handles, headers, data_cols, num_rows_data, treated_matrix, grid,
                   i, start_row_dst, run_attempt, mainst, mainerr, delays, src, dst,
                   oplog, runno, snapshot, fixedVars>>

\* an invocation inside with_retry raises e
CallFails(e) ==
    /\ pc \in RetrySites
    /\ IF Raises(e, attempt, DEFAULT_MAX_TRIES)
       THEN /\ pc' = "ABORT"
            /\ pending' = e
            /\ attempt' = 1
       ELSE /\ attempt' = attempt + 1
            /\ UNCHANGED <<pc, pending>>
    /\ UNCHANGED <<handles, headers, data_cols, num_rows_data, treated_matrix, grid, i,
                   start_row_dst, run_attempt, mainst, mainerr, delays, src, dst,
                   oplog, runno, snapshot, fixedVars>>

OpenSource ==
    /\ pc = "OPEN_SOURCE"
    /\ pc' = "OPEN_DEST"
    /\ handles' = handles \cup {"wks_src"}
    /\ attempt' = 1
    /\ UNCHANGED <<headers, data_cols, num_rows_data, treated_matrix, grid, i,
                   start_row_dst, pending, run_attempt, mainst, mainerr, delays, src, dst,
                   oplog, runno, snapshot, fixedVars>>

\* a slip: the destination is cleared as soon as it is opened
OpenDest_clears_first ==
    /\ pc = "OPEN_DEST"
    /\ pc' = "CLEAR_META"
    /\ handles' = handles \cup {"wks_dst"}
    /\ attempt' = 1
    /\ UNCHANGED <<headers, data_cols, num_rows_data, treated_matrix, grid, i,
                   start_row_dst, pending, run_attempt, mainst, mainerr, delays, src, dst,
                   oplog, runno, snapshot, fixedVars>>

OpenDest ==
    /\ pc = "OPEN_DEST"
    /\ pc' = "READ_HEADERS"
    /\ handles' = handles \cup {"wks_dst"}
    /\ attempt' = 1
    /\ UNCHANGED <<headers, data_cols, num_rows_data, treated_matrix, grid, i,
                   start_row_dst, pending, run_attempt, mainst, mainerr, delays, src, dst,
                   oplog, runno, snapshot, fixedVars>>

\* one pass of the header loop: the get of the next mapping's cell
ReadHeader ==
    /\ pc = "READ_HEADERS"
    /\ headers' = Append(headers, HeaderOf(GetCell(src, Len(headers) + 1)))
    /\ pc' = IF Len(headers) + 1 = NMap THEN "READ_DATA" ELSE "READ_HEADERS"
    /\ attempt' = 1
    /\ UNCHANGED <<handles, data_cols, num_rows_data, treated_matrix, grid, i,
                   start_row_dst, pending, run_attempt, mainst, mainerr, delays, src, dst,
                   oplog, runno, snapshot, fixedVars>>

\* batch_get_cols and the normalisation into data_cols
ReadData ==
    /\ pc = "READ_DATA"
    /\ data_cols' = NormalizeBatch(BatchGet(src, MAX_ROWS_SCAN))
    /\ pc' = "INFER_ROW_COUNT"
    /\ attempt' = 1
    /\ UNCHANGED <<handles, headers, num_rows_data, treated_matrix, grid, i,
                   start_row_dst, pending, run_attempt, mainst, mainerr, delays, src, dst,
                   oplog, runno, snapshot, fixedVars>>

InferRowCount ==
    /\ pc = "INFER_ROW_COUNT"
    /\ num_rows_data' = calc_num_rows_from_columns(data_cols)
    /\ pc' = "COERCE_ROWS"
    /\ UNCHANGED <<attempt, handles, headers, data_cols, treated_matrix, grid, i,
                   start_row_dst, pending, run_attempt, mainst, mainerr, delays, src, dst,
                   oplog, runno, snapshot, fixedVars>>

CoerceRows ==
    /\ pc = "COERCE_ROWS"
    /\ treated_matrix' = Treat(data_cols, num_rows_data)
    /\ pc' = "CLEAR_META"
    /\ UNCHANGED <<attempt, handles, headers, data_cols, num_rows_data, grid, i,
                   start_row_dst, pending, run_attempt, mainst, mainerr, delays, src, dst,
                   oplog, runno, snapshot, fixedVars>>

\* clear_all: get_grid_size
ClearMeta ==
    /\ pc = "CLEAR_META"
    /\ grid' = <<dst.rows, dst.cols>>
    /\ pc' = "CLEAR_DEST"
    /\ attempt' = 1
    /\ UNCHANGED <<handles, headers, data_cols, num_rows_data, treated_matrix, i,
                   start_row_dst, pending, run_attempt, mainst, mainerr, delays, src, dst,
                   oplog, runno, snapshot, fixedVars>>

\* clear_all: batch_clear
ClearDest ==
    /\ pc = "CLEAR_DEST"
    /\ LET rng == ClearRange(grid[1], grid[2])
       IN /\ dst' = ApplyClear(dst, rng)
          /\ oplog' = Append(oplog, Op("batch_clear", rng, 0))
    /\ pc' = "EXPAND_META"
    /\ attempt' = 1
    /\ UNCHANGED <<handles, headers, data_cols, num_rows_data, treated_matrix, grid, i,
                   start_row_dst, pending, run_attempt, mainst, mainerr, delays, src,
                   runno, snapshot, fixedVars>>

\* auto_expand_rows: get_grid_size and the comparison
ExpandMeta ==
    /\ pc = "EXPAND_META"
    /\ grid' = <<dst.rows, dst.cols>>
    /\ pc' = IF dst.rows < EndRow(headers, num_rows_data) THEN "EXPAND_DEST" ELSE "WRITE_HEADER"
    /\ attempt' = 1
    /\ UNCHANGED <<handles, headers, data_cols, num_rows_data, treated_matrix, i,
                   start_row_dst, pending, run_attempt, mainst, mainerr, delays, src, dst,
                   oplog, runno, snapshot, fixedVars>>

\* auto_expand_rows: add_rows(needed_rows - rows)
ExpandDest ==
    /\ pc = "EXPAND_DEST"
    /\ LET n == RowsToAdd(EndRow(headers, num_rows_data), grid[1])
       IN /\ dst' = ApplyAddRows(dst, n)
          /\ oplog' = Append(oplog, Op("add_rows", NoRange, n))
    /\ pc' = "WRITE_HEADER"
    /\ attempt' = 1
    /\ UNCHANGED <<handles, headers, data_cols, num_rows_data, treated_matrix, grid, i,
                   start_row_dst, pending, run_attempt, mainst, mainerr, delays, src,
                   runno, snapshot, fixedVars>>

\* set_matrix of the header row; with no data rows run_once ends here
WriteHeader ==
    /\ pc = "WRITE_HEADER"
    /\ InGrid(dst, HeaderRange)
    /\ dst' = ApplyUpdate(dst, HeaderRange, <<headers>>)
    /\ oplog' = Append(oplog, Op("update", HeaderRange, 1))
    /\ attempt' = 1
    /\ IF treated_matrix # <<>>
       THEN /\ pc' = "WRITE_DATA"
            /\ start_row_dst' = DEST_DATA_START_ROW
            /\ i' = 0
            /\ UNCHANGED mainst
       ELSE /\ pc' = "DONE"
            /\ mainst' = "returned"
            /\ UNCHANGED <<start_row_dst, i>>
    /\ UNCHANGED <<handles, headers, data_cols, num_rows_data, treated_matrix, grid,
                   pending, run_attempt, mainerr, delays, src,
                   runno, snapshot, fixedVars>>

\* one pass of the batch loop; after the last batch run_once and main return
WriteData ==
    /\ pc = "WRITE_DATA"
    /\ LET chunk == Chunk(treated_matrix, i)
           chunk_end == start_row_dst + Len(chunk) - 1
           rng == a1_range(DEST_START_COL, start_row_dst, DEST_END_COL, chunk_end)
       IN /\ InGrid(dst, rng)
          /\ dst' = ApplyUpdate(dst, rng, chunk)
          /\ oplog' = Append(oplog, Op("update", rng, Len(chunk)))
          /\ i' = i + Len(chunk)
          /\ start_row_dst' = NextStartRow(chunk_end)
          /\ IF i + Len(chunk) < num_rows_data
             THEN pc' = "WRITE_DATA" /\ UNCHANGED mainst
             ELSE pc' = "DONE" /\ mainst' = "returned"
    /\ attempt' = 1
    /\ UNCHANGED <<handles, headers, data_cols, num_rows_data, treated_matrix, grid,
                   pending, run_attempt, mainerr, delays, src,
                   runno, snapshot, fixedVars>>

\* main: an except branch, with the error that left run_once
MainCatch ==
    /\ pc = "ABORT"
    /\ IF MainRestarts(pending, run_attempt)
       THEN /\ delays' = Append(delays, RunDelay(pending, run_attempt))
            /\ run_attempt' = run_attempt + 1
            /\ pc' = "AUTHENTICATE"
            /\ pending' = NoErr
            /\ FreshLocals
            /\ UNCHANGED <<mainst, mainerr>>
       ELSE /\ mainst' = "raised"
            /\ mainerr' = pending
            /\ pc' = "FAILED"
            /\ FreshLocals
            /\ UNCHANGED <<pending, run_attempt, delays>>
    /\ UNCHANGED <<src, dst, runno, snapshot, fixedVars>>

\* the program is run once more, the source as it was
RunAgain ==
    /\ mainst = "returned"
    /\ runno = 1
    /\ runno' = 2
    /\ snapshot' = dst
    /\ mainst' = "running"
    /\ run_attempt' = 1
    /\ delays' = <<>>
    /\ pc' = "AUTHENTICATE"
    /\ FreshLocals
    /\ UNCHANGED <<pending, mainerr, src, dst, fixedVars>>

Next ==
    \/ Authenticate
    \/ \E e \in RaisedErrors : AuthenticateFails(e)
    \/ \E e \in RaisedErrors : CallFails(e)
    \/ OpenSource
    \/ OpenDest
    \/ ReadHeader
    \/ ReadData
    \/ InferRowCount
    \/ CoerceRows
    \/ ClearMeta
    \/ ClearDest
    \/ ExpandMeta
    \/ ExpandDest
    \/ WriteHeader
    \/ WriteData
    \/ MainCatch
    \/ RunAgain

Spec == Init /\ [][Next]_vars

-----------------------------------------------------------------------------
\* C4: an APIError is classified retryable exactly when its status code is one
\* of 429, 500, 502, 503, whatever its message holds.
C4_ClassifiedByStatusCode ==
    cres # "none" => (cres = "retryable" <=> cerr.code \in RetryStatusCodes)

\* C1: call is invoked at most max_tries times; a return is the result of the
\* one successful invocation, which is the last; a raise carries the error of
\* the last failed invocation; when every invocation failed with a retryable
\* APIError the raise comes after exactly max_tries invocations.
C1_RetryContract ==
    /\ hist.calls <= max_tries
    /\ hist.oks <= 1
    /\ hist.calls = hist.oks + hist.fails
    /\ wst = "returned" <=> hist.oks = 1
    /\ wst = "returned" => hist.lastWasOk /\ wraised = NoErr
    /\ wst = "raised" => /\ ~hist.lastWasOk
                         /\ wraised = hist.lastFail
                         /\ wraised # NoErr
    /\ (wst = "raised" /\ hist.nRetryable = hist.fails) => hist.calls = max_tries

C1_Witness ==
    /\ wst = "raised"
    /\ max_tries = 4
    /\ hist.nRetryable = 4
    /\ hist.calls = 4

\* C2: a non-retryable APIError is raised at once: the sleeps are only those
\* that followed the earlier failures, and the run of with_retry is over.
C2_NonRetryableImmediate ==
    (hist.lastFail.kind = "api" /\ ~is_retryable_api_error(hist.lastFail) /\ ~hist.lastWasOk)
        => /\ wst = "raised"
           /\ wraised = hist.lastFail
           /\ hist.sleeps = hist.fails - 1
           /\ attempt = hist.calls

C2_Witness ==
    /\ wst = "raised"
    /\ wraised = E404
    /\ hist.calls = 3
    /\ max_tries = 5

\* C3 as stated: an unexpected exception is propagated only when
\* min(3, max_tries) invocations have failed with an unexpected exception.
C3_UnexpectedOwnBudget ==
    (wst = "raised" /\ wraised.kind = "exc")
        => hist.nUnexp >= Min(UNEXPECTED_TRIES, max_tries)

\* C3 amended: the budget is counted in invocations of any outcome.  The k-th
\* invocation of a with_retry call, when it raises an unexpected exception, is
\* retried after the flat delay if k < min(3, max_tries) and propagated
\* otherwise.
C3_UnexpectedSharedBudget ==
    (hist.lastFail.kind = "exc" /\ ~hist.lastWasOk)
        => IF hist.calls < Min(UNEXPECTED_TRIES, max_tries)
           THEN wst = "running" /\ hist.delay = FLAT_DELAY /\ attempt = hist.calls + 1
           ELSE wst = "raised" /\ wraised = hist.lastFail

C3_Witness ==
    /\ wst = "raised"
    /\ wraised.kind = "exc"
    /\ hist.nRetryable = 2
    /\ hist.nUnexp = 1

-----------------------------------------------------------------------------
(* The run: what the claims speak of.                                      *)

Restartable(e) == e.kind = "exc" \/ (e.kind = "api" /\ is_retryable_api_error(e))
Restarts == Len(delays)

IsClearOp(o)  == o.op = "batch_clear"
IsAddOp(o)    == o.op = "add_rows"
IsHeaderOp(o) == o.op = "update" /\ o.r1 = DEST_HEADER_ROW
IsDataOp(o)   == o.op = "update" /\ o.r1 # DEST_HEADER_ROW
Rank(o) == IF IsClearOp(o) THEN 1 ELSE IF IsAddOp(o) THEN 2 ELSE IF IsHeaderOp(o) THEN 3 ELSE 4
DataOps == SelectSeq(oplog, IsDataOp)

RECURSIVE SumRows(_)
SumRows(ops) == IF ops = <<>> THEN 0 ELSE Head(ops).n + SumRows(Tail(ops))

CeilDiv(a, b) == (a + b - 1) \div b

FirstCol == col_letter_to_index(DEST_START_COL)
LastCol == col_letter_to_index(DEST_END_COL)

\* the cell a finished run is to leave at row r, column c
ExpectedCell(r, c) ==
    IF c \in FirstCol..LastCol /\ r = DEST_HEADER_ROW THEN headers[c - FirstCol + 1]
    ELSE IF c \in FirstCol..LastCol
            /\ r \in DEST_DATA_START_ROW..(DEST_DATA_START_ROW + num_rows_data - 1)
         THEN treated_matrix[r - DEST_DATA_START_ROW + 1][c - FirstCol + 1]
    ELSE EmptyStr

CellAt(d, r, c) == IF r <= d.rows /\ c <= d.cols THEN d.cells[r][c] ELSE EmptyStr

SameContents(d1, d2) ==
    \A r \in 1..Max(d1.rows, d2.rows), c \in 1..Max(d1.cols, d2.cols) :
        CellAt(d1, r, c) = CellAt(d2, r, c)

\* C5 as stated: whatever error leaves run_once, main raises only once the
\* run attempts are used up.
C5_RaisesOnlyWhenExhausted ==
    mainst = "raised" => run_attempt = MAX_RUN_TRIES

\* C5 amended: an error that leaves run_once restarts the run while attempts
\* remain when it is a retryable APIError or an unexpected exception, and main
\* raises such an error only on the last attempt; an APIError that is not
\* retryable is raised by main at once, on whichever attempt, with no restart.
C5_RestartUnlessNonRetryable ==
    /\ [](mainst = "raised" /\ Restartable(mainerr) => run_attempt = MAX_RUN_TRIES)
    /\ [][pc = "ABORT" =>
            IF Restartable(pending) /\ run_attempt < MAX_RUN_TRIES
            THEN /\ pc' = "AUTHENTICATE" /\ mainst' = "running"
                 /\ run_attempt' = run_attempt + 1 /\ handles' = {}
            ELSE /\ mainst' = "raised" /\ mainerr' = pending
                 /\ run_attempt' = run_attempt]_vars

C5_Witness ==
    /\ mainst = "raised"
    /\ mainerr = E404
    /\ run_attempt = 1

\* C6 as stated: main restarts the run 3 times before a restartable failure
\* is fatal, and never more.
C6_ThreeRestarts ==
    /\ Restarts <= 3
    /\ (mainst = "raised" /\ Restartable(mainerr)) => Restarts = 3

\* C6 amended: MAX_RUN_TRIES = 3 counts the run attempts, so main restarts the
\* run at most 2 times; when every attempt fails with a restartable error the
\* error of the third attempt is raised after exactly 2 restarts.
C6_ThreeAttemptsTwoRestarts ==
    /\ run_attempt \in 1..MAX_RUN_TRIES
    /\ Restarts = run_attempt - 1
    /\ (mainst = "raised" /\ Restartable(mainerr))
            => /\ Restarts = MAX_RUN_TRIES - 1
               /\ mainerr = pending

C6_Witness ==
    /\ mainst = "raised"
    /\ mainerr = E503
    /\ Restarts = 2
    /\ run_attempt = 3

\* C7: in every run attempt the destination calls succeed in the order
\* batch_clear, add_rows (at most once), header update, data updates by
\* ascending rows; no call is issued before the one ahead of it succeeded.
C7_DestinationCallsOrdered ==
    /\ \A j, k \in 1..Len(oplog) :
          j < k => /\ Rank(oplog[j]) <= Rank(oplog[k])
                   /\ Rank(oplog[j]) = Rank(oplog[k])
                        => (IsDataOp(oplog[j]) /\ oplog[j].r2 < oplog[k].r1)
    /\ pc \in {"AUTHENTICATE", "OPEN_SOURCE", "OPEN_DEST", "READ_HEADERS", "READ_DATA",
               "INFER_ROW_COUNT", "COERCE_ROWS", "CLEAR_META", "CLEAR_DEST"}
          => oplog = <<>>
    /\ pc \in {"EXPAND_META", "EXPAND_DEST", "WRITE_HEADER", "WRITE_DATA", "DONE"}
          => (oplog # <<>> /\ IsClearOp(oplog[1]))
    /\ pc = "EXPAND_DEST" => Len(oplog) = 1
    /\ pc = "WRITE_HEADER" => \A k \in 1..Len(oplog) : Rank(oplog[k]) <= 2
    /\ pc \in {"WRITE_DATA", "DONE"} => \E k \in 1..Len(oplog) : IsHeaderOp(oplog[k])
    /\ pc = "WRITE_DATA" => \A k \in 1..Len(DataOps) : DataOps[k].r2 < start_row_dst

C7_Witness ==
    /\ pc = "DONE"
    /\ run_attempt = 2
    /\ Len(oplog) = 6
    /\ IsAddOp(oplog[2])

\* C8: the data rows are written in ceil(N / BATCH_ROWS) updates of at most
\* BATCH_ROWS rows, each carrying as many rows as its range spans, the ranges
\* contiguous from row 3 to row N + 2 in ascending order; the cursor moves on
\* by the rows of each batch.
C8_ChunkedWritePartition ==
    /\ \A k \in 1..Len(DataOps) :
          /\ DataOps[k].n \in 1..BATCH_ROWS
          /\ DataOps[k].n = DataOps[k].r2 - DataOps[k].r1 + 1
          /\ DataOps[k].r1 = IF k = 1 THEN DEST_DATA_START_ROW ELSE DataOps[k - 1].r2 + 1
          /\ DataOps[k].c1 = DEST_START_COL /\ DataOps[k].c2 = DEST_END_COL
    /\ pc = "WRITE_DATA" => /\ i = SumRows(DataOps)
                            /\ i < num_rows_data
                            /\ start_row_dst = DEST_DATA_START_ROW + i
    /\ (pc = "DONE" /\ num_rows_data >= 1)
          => /\ Len(DataOps) = CeilDiv(num_rows_data, BATCH_ROWS)
             /\ SumRows(DataOps) = num_rows_data
             /\ DataOps[Len(DataOps)].r2 = num_rows_data + DEST_DATA_START_ROW - 1
    /\ (pc = "DONE" /\ num_rows_data = 0) => DataOps = <<>>

C8_Witness ==
    /\ pc = "DONE"
    /\ num_rows_data = 2 * BATCH_ROWS + 1
    /\ Len(DataOps) = 3
    /\ DataOps[3].n = 1

\* C9: when a run attempt is done the destination holds the headers read in
\* the attempt in row 2 and its treated rows from row 3, in columns B to the
\* last mapped column, and nothing else anywhere in the grid.
C9_FullOverwrite ==
    pc = "DONE" =>
        /\ Len(treated_matrix) = num_rows_data
        /\ Len(headers) = NMap
        /\ dst.rows >= DEST_DATA_START_ROW + num_rows_data - 1
        /\ \A r \in 1..dst.rows, c \in 1..dst.cols : dst.cells[r][c] = ExpectedCell(r, c)

C9_Witness ==
    /\ pc = "DONE"
    /\ run_attempt = 3
    /\ num_rows_data = 2
    /\ dst.rows = MaxDstRows
    /\ dst.cols > LastCol

\* C10: a second complete run against the same source leaves the destination
\* cells as the first run left them.
C10_Idempotent ==
    (runno = 2 /\ mainst = "returned") => SameContents(dst, snapshot)

C10_Witness ==
    /\ runno = 2
    /\ mainst = "returned"
    /\ run_attempt = 2
    /\ num_rows_data = 3
    /\ snapshot.rows > 1

-----------------------------------------------------------------------------
(* calc_num_rows_from_columns on its own: columns of empty cells, cells of *)
(* spaces and numbers.                                                     *)

RowCells == {EmptyStr, A(" "), IntV(0)}
Columns == UNION { [1..n -> RowCells] : n \in 0..MaxColLen }
ColumnDicts == UNION { [1..n -> Columns] : n \in 0..2 }

InitRows ==
    /\ ClsIdle /\ RetryIdle /\ attempt = 1
    /\ pc = "INFER_ROW_COUNT"
    /\ data_cols \in ColumnDicts
    /\ handles = {} /\ headers = <<>> /\ num_rows_data = 0 /\ treated_matrix = <<>>
    /\ grid = <<0, 0>> /\ i = 0 /\ start_row_dst = 0 /\ pending = NoErr
    /\ run_attempt = 0 /\ mainst = "idle" /\ mainerr = NoErr /\ delays = <<>>
    /\ src = <<>> /\ dst = <<>> /\ oplog = <<>> /\ runno = 0 /\ snapshot = <<>>

NextRows == InferRowCount

SpecRows == InitRows /\ [][NextRows]_vars

\* the row of the last cell of col that is neither empty nor spaces, or 0
LastFilledRow(col) ==
    LET filled == {r \in 1..Len(col) : ~(col[r] = EmptyStr \/ col[r] = A(" "))}
    IN IF filled = {} THEN 0 ELSE CHOOSE r \in filled : \A q \in filled : q <= r

\* C11: calc_num_rows_from_columns returns the largest, over the columns, of
\* the length left when the trailing empty or whitespace-only cells are
\* removed (0 when no column has any other cell), and leaves its input as
\* it was.
C11_RowCountIsMaxTrimmedLength ==
    /\ [](pc = "COERCE_ROWS" =>
            /\ \A k \in 1..Len(data_cols) : num_rows_data >= LastFilledRow(data_cols[k])
            /\ \/ \E k \in 1..Len(data_cols) : num_rows_data = LastFilledRow(data_cols[k])
               \/ (num_rows_data = 0 /\ data_cols = <<>>))
    /\ [][pc = "INFER_ROW_COUNT" => data_cols' = data_cols]_vars

C11_Witness ==
    /\ pc = "COERCE_ROWS"
    /\ num_rows_data = 2
    /\ Len(data_cols) = 2
    /\ data_cols[1] = <<EmptyStr, IntV(0), A(" ")>>
    /\ data_cols[2] = <<A(" "), EmptyStr>>

-----------------------------------------------------------------------------
(* The scan limit.                                                         *)

SourceCell(s, k, r) == IF r <= Len(s.cols[k]) THEN s.cols[k][r] ELSE EmptyStr
SourceRowFilled(s, r) == \E k \in 1..NMap : ~IsBlank(SourceCell(s, k, r))
SourceRows(s) == UNION { DOMAIN s.cols[k] : k \in 1..NMap }
FilledRows(s) == {r \in SourceRows(s) : SourceRowFilled(s, r)}

\* the last filled row among the rows read, or 0
LastScannedFilledRow(s) ==
    LET seen == {r \in FilledRows(s) : r <= MAX_ROWS_SCAN}
    IN IF seen = {} THEN 0 ELSE CHOOSE r \in seen : \A q \in seen : q <= r

\* C12 as stated: a run over a source with more filled data rows than
\* MAX_ROWS_SCAN writes exactly MAX_ROWS_SCAN data rows, and no run writes
\* more.
C12_ExactlyScanLimitRows ==
    /\ num_rows_data <= MAX_ROWS_SCAN
    /\ (pc = "DONE" /\ Cardinality(FilledRows(src)) > MAX_ROWS_SCAN)
            => (num_rows_data = MAX_ROWS_SCAN /\ SumRows(DataOps) = MAX_ROWS_SCAN)

\* C12 amended: no run writes more than MAX_ROWS_SCAN data rows; a finished
\* run has written the source rows down to the last one, among the first
\* MAX_ROWS_SCAN, that is filled in some mapped column, which is exactly
\* MAX_ROWS_SCAN rows when the last row read is filled, whatever lies below.
C12_ScanLimitUpToLastFilledRow ==
    /\ num_rows_data <= MAX_ROWS_SCAN
    /\ SumRows(DataOps) <= MAX_ROWS_SCAN
    /\ pc = "DONE" =>
          /\ num_rows_data = LastScannedFilledRow(src)
          /\ num_rows_data >= 1 => SumRows(DataOps) = num_rows_data
          /\ SourceRowFilled(src, MAX_ROWS_SCAN) => num_rows_data = MAX_ROWS_SCAN
          /\ \A r \in 1..num_rows_data, k \in 1..NMap :
                dst.cells[DEST_DATA_START_ROW + r - 1][FirstCol + k - 1]
                    = Coerce(MAPPINGS[k].tipo, SourceCell(src, k, r))
          /\ \A r \in (DEST_DATA_START_ROW + num_rows_data)..dst.rows, c \in 1..dst.cols :
                dst.cells[r][c] = EmptyStr

C12_Witness ==
    /\ pc = "DONE"
    /\ Cardinality(FilledRows(src)) > MAX_ROWS_SCAN
    /\ SourceRowFilled(src, MAX_ROWS_SCAN)
    /\ num_rows_data = MAX_ROWS_SCAN
    /\ SumRows(DataOps) = MAX_ROWS_SCAN

-----------------------------------------------------------------------------
(* The coercions on their own: one row holding the same raw cell in every  *)
(* mapped column, above a row of text, from the row count to the treated   *)
(* matrix.                                                                  *)

RawChars == {"1", "5", ",", ".", "-", "/", " ", "a"}
RawTexts == UNION { [1..n -> RawChars] : n \in 0..MaxRawLen }
RawExamples ==
    { Str(<<"1",".","2","3","4",",","5","6">>),
      Str(<<"1",",","2","3","4",".","5","6">>),
      Str(<<"a","b","c">>),
      Str(<<"R","$"," ","1",".","2","3","4",",","5","6">>),
      Str(<<"1","5","/","0","1","/","2","0","2","4">>),
      Str(<<"2","0","2","4","-","0","1","-","1","5">>),
      Str(<<"1","5","-","0","1","-","2","0","2","4">>),
      Str(<<"1","5","/","0","1","/","2","4">>),
      Str(<<"3","1","/","0","2","/","2","0","2","4">>),
      Str(<<" ","1","/","1","/","2","0","2","4"," ">>),
      IntV(1500), IntV(45306), IntV(0), FloatV(15, 1) }
RawCells == { Str(s) : s \in RawTexts } \cup RawExamples

InitCoerce ==
    /\ ClsIdle /\ RetryIdle /\ attempt = 1
    /\ pc = "INFER_ROW_COUNT"
    /\ \E v \in RawCells : data_cols = [k \in 1..NMap |-> <<v, A("x")>>]
    /\ handles = {} /\ headers = <<>> /\ num_rows_data = 0 /\ treated_matrix = <<>>
    /\ grid = <<0, 0>> /\ i = 0 /\ start_row_dst = 0 /\ pending = NoErr
    /\ run_attempt = 0 /\ mainst = "idle" /\ mainerr = NoErr /\ delays = <<>>
    /\ src = <<>> /\ dst = <<>> /\ oplog = <<>> /\ runno = 0 /\ snapshot = <<>>

NextCoerce ==
    \/ InferRowCount
    \/ CoerceRows

SpecCoerce == InitCoerce /\ [][NextCoerce]_vars

ColOfType(tipo) == CHOOSE k \in 1..NMap : MAPPINGS[k].tipo = tipo
RawOf(tipo) == data_cols[ColOfType(tipo)][1]
TreatedOf(tipo) == treated_matrix[1][ColOfType(tipo)]
Treated == pc = "CLEAR_META"

\* the number written as text s, or "" when s is not a number
TreatedValue(s) == IF ParseFloat(s) = ParseFailed THEN EmptyStr ELSE ParseFloat(s)

\* C13: clean_currency gives 1234.56 for "1.234,56" and for "1,234.56", ""
\* for "" and for "abc", 1500.0 for the number 1500; text with a comma and a
\* dot is read with its dots removed and its comma as the decimal point, text
\* with commas only with the commas as decimal points.
C13_CurrencyExamples ==
    Treated =>
        LET raw == RawOf("valor")
            out == TreatedOf("valor")
            kept == Filter(Strip(raw.s), CurrencyChars)
        IN /\ raw = Str(<<"1",".","2","3","4",",","5","6">>) => out = FloatV(123456, 2)
           /\ raw = Str(<<"1",",","2","3","4",".","5","6">>) => out = FloatV(123456, 2)
           /\ raw = EmptyStr => out = EmptyStr
           /\ raw = Str(<<"a","b","c">>) => out = EmptyStr
           /\ raw = IntV(1500) => out = FloatV(1500, 0)
           /\ (raw.t = "str" /\ Count(kept, ",") > 0 /\ Count(kept, ".") > 0)
                => out = TreatedValue(Replace(Filter(kept, CurrencyChars \ {"."}), ",", <<".">>))
           /\ (raw.t = "str" /\ Count(kept, ",") > 0 /\ Count(kept, ".") = 0)
                => out = TreatedValue(Replace(kept, ",", <<".">>))

\* C16: a coercion gives a number or the empty string for every raw cell and
\* never fails, so the step after COERCE_ROWS is the clearing of the
\* destination; text cells and the numbers of date columns are left as read.
C16_CoercionNeverFails ==
    /\ [](Treated =>
            /\ Len(treated_matrix) = num_rows_data
            /\ TreatedOf("texto") = RawOf("texto")
            /\ TreatedOf("valor") = EmptyStr \/ TreatedOf("valor").t = "float"
            /\ TreatedOf("data") = EmptyStr \/ IsNumber(TreatedOf("data"))
            /\ IsNumber(RawOf("data")) => TreatedOf("data") = RawOf("data")
            /\ RawOf("valor") = EmptyStr => TreatedOf("valor") = EmptyStr)
    /\ [][pc = "COERCE_ROWS" => pc' = "CLEAR_META" /\ pending' = NoErr]_vars

C16_Witness ==
    /\ Treated
    /\ RawOf("data") = Str(<<"3","1","/","0","2","/","2","0","2","4">>)
    /\ TreatedOf("data") = EmptyStr
    /\ TreatedOf("valor") = FloatV(31022024, 0)
    /\ TreatedOf("texto") = RawOf("texto")

-----------------------------------------------------------------------------
(* auto_expand_rows on its own: called on a sheet of any size for any row  *)
(* count asked of it by run_once, then called once more for as many rows   *)
(* or fewer.                                                               *)

InitExpand ==
    /\ ClsIdle /\ RetryIdle /\ attempt = 1
    /\ pc = "EXPAND_META"
    /\ handles = {"gc", "wks_src", "wks_dst"}
    /\ headers \in {<<>>, [k \in 1..NMap |-> A("h")]}
    /\ num_rows_data \in 0..MAX_ROWS_SCAN
    /\ \E rows \in 1..MaxDstRows : dst = DstInit(rows, NMap + 2)
    /\ data_cols = <<>> /\ treated_matrix = <<>>
    /\ grid = <<0, 0>> /\ i = 0 /\ start_row_dst = 0 /\ pending = NoErr
    /\ run_attempt = 1 /\ mainst = "running" /\ mainerr = NoErr /\ delays = <<>>
    /\ src = <<>> /\ oplog = <<>> /\ runno = 1 /\ snapshot = <<>>

\* add_rows takes effect at the service and the invocation raises e all the
\* same (the response is lost): with_retry treats it as any other failure
ExpandDestApplied(e) ==
    /\ pc = "EXPAND_DEST"
    /\ LET n == RowsToAdd(EndRow(headers, num_rows_data), grid[1])
       IN /\ dst' = ApplyAddRows(dst, n)
          /\ oplog' = Append(oplog, Op("add_rows", NoRange, n))
    /\ IF Raises(e, attempt, DEFAULT_MAX_TRIES)
       THEN /\ pc' = "ABORT"
            /\ pending' = e
            /\ attempt' = 1
       ELSE /\ attempt' = attempt + 1
            /\ UNCHANGED <<pc, pending>>
    /\ UNCHANGED <<handles, headers, data_cols, num_rows_data, treated_matrix, grid, i,
                   start_row_dst, run_attempt, mainst, mainerr, delays, src,
                   runno, snapshot, fixedVars>>

\* auto_expand_rows has returned; it is called again for n rows, n no more
\* than before
ExpandAgain(n) ==
    /\ pc = "WRITE_HEADER"
    /\ runno = 1
    /\ n <= num_rows_data
    /\ num_rows_data' = n
    /\ runno' = 2
    /\ snapshot' = dst
    /\ pc' = "EXPAND_META"
    /\ UNCHANGED <<attempt, handles, headers, data_cols, treated_matrix, grid, i,
                   start_row_dst, pending, run_attempt, mainst, mainerr, delays, src, dst,
                   oplog, fixedVars>>

NextExpand ==
    \/ ExpandMeta
    \/ ExpandDest
    \/ \E e \in RaisedErrors : CallFails(e)
    \/ \E e \in RaisedErrors : ExpandDestApplied(e)
    \/ \E n \in 0..MAX_ROWS_SCAN : ExpandAgain(n)

SpecExpand == InitExpand /\ [][NextExpand]_vars

\* the row count run_once asks of auto_expand_rows
NeededRows == DEST_DATA_START_ROW + (IF headers = <<>> THEN 0 ELSE 1) + num_rows_data - 1

\* C14: auto_expand_rows never lowers the row count; when it has returned the
\* sheet has at least the rows asked for; every add_rows asks for exactly the
\* rows missing at the time the size was read, and only when rows are missing;
\* a second call for as many rows or fewer adds nothing and leaves the grid
\* as it was.
C14_ExpandNeverShrinksIdempotent ==
    /\ [](pc = "WRITE_HEADER" => dst.rows >= NeededRows)
    /\ [](pc = "EXPAND_DEST" => grid[1] < NeededRows)
    /\ [](runno = 2 => pc # "EXPAND_DEST" /\ dst = snapshot)
    /\ [][/\ dst'.rows >= dst.rows
          /\ \A r \in 1..dst.rows : dst'.cells[r] = dst.cells[r]
          /\ oplog' # oplog =>
                /\ pc = "EXPAND_DEST" /\ runno = 1
                /\ oplog' = Append(oplog, Op("add_rows", NoRange, NeededRows - grid[1]))
                /\ dst'.rows = dst.rows + (NeededRows - grid[1])
          /\ (pc = "EXPAND_META" /\ pc' = "WRITE_HEADER") => dst' = dst /\ oplog' = oplog]_vars

C14_Witness ==
    /\ runno = 2
    /\ pc = "WRITE_HEADER"
    /\ Len(oplog) = 2
    /\ dst.rows > NeededRows
    /\ dst = snapshot

-----------------------------------------------------------------------------
\* C15: after the batched data read every column of data_cols has exactly
\* MAX_ROWS_SCAN entries, the cells missing from the response being "".
C15_ColumnsPaddedToScanLimit ==
    pc \in {"INFER_ROW_COUNT", "COERCE_ROWS", "CLEAR_META"} =>
        /\ Len(data_cols) = NMap
        /\ \A k \in 1..NMap :
              /\ Len(data_cols[k]) = MAX_ROWS_SCAN
              /\ \A r \in 1..MAX_ROWS_SCAN : data_cols[k][r] = SourceCell(src, k, r)

-----------------------------------------------------------------------------
(* The backoff of with_retry.  hist.backoffs lists, for each sleep after a *)
(* retryable APIError, the number of the invocation that failed and the    *)
(* delay without jitter.                                                   *)

\* base doubled k - 1 times, held at cap
RECURSIVE Doubled(_, _, _)
Doubled(k, base, cap) ==
    IF k <= 1 THEN Min(cap, base) ELSE Min(cap, 2 * Doubled(k - 1, base, cap))

\* C17 as stated: the delay of the sleep after the k-th failed invocation is
\* min(cap, base * 2^(k-1)) plus a jitter under 0.5 s; over the successive
\* sleeps after retryable APIErrors of one execution it never decreases,
\* doubles until it reaches cap, and never exceeds cap.
C17_BackoffDoubles ==
    /\ hist.jitter \in 0..JITTER_MAX
    /\ \A n \in 1..Len(hist.backoffs) :
          /\ hist.backoffs[n][2] = Doubled(hist.backoffs[n][1], RETRY_BASE, RETRY_CAP)
          /\ hist.backoffs[n][2] <= RETRY_CAP
          /\ n > 1 => /\ hist.backoffs[n][2] >= hist.backoffs[n - 1][2]
                      /\ hist.backoffs[n][2] = Min(RETRY_CAP, 2 * hist.backoffs[n - 1][2])

\* C17 amended: k counts every invocation of the execution, those that
\* raised an unexpected exception included; the delay never decreases and
\* never exceeds cap, and from one sleep after a retryable APIError to the
\* next it doubles once for every invocation in between, up to cap: once when
\* the two failures are consecutive, more when retried unexpected exceptions
\* came between them.
C17_BackoffByInvocationNumber ==
    /\ hist.jitter \in 0..JITTER_MAX
    /\ JITTER_MAX < 5
    /\ \A n \in 1..Len(hist.backoffs) :
          /\ hist.backoffs[n][1] \in 1..(max_tries - 1)
          /\ hist.backoffs[n][2] = Doubled(hist.backoffs[n][1], RETRY_BASE, RETRY_CAP)
          /\ hist.backoffs[n][2] <= RETRY_CAP
          /\ n > 1 => /\ hist.backoffs[n][1] > hist.backoffs[n - 1][1]
                      /\ hist.backoffs[n][2] >= hist.backoffs[n - 1][2]
                      /\ hist.backoffs[n][1] = hist.backoffs[n - 1][1] + 1
                            => hist.backoffs[n][2] = Min(RETRY_CAP, 2 * hist.backoffs[n - 1][2])
    /\ (wst = "running" /\ hist.calls > 0 /\ hist.lastFail.kind = "api")
          => /\ hist.backoffs # <<>>
             /\ hist.backoffs[Len(hist.backoffs)] = <<hist.calls, hist.delay>>
             /\ attempt = hist.calls + 1

C17_Witness ==
    /\ wst = "running"
    /\ hist.backoffs = << <<1, RETRY_BASE>>, <<3, 4 * RETRY_BASE>>, <<4, 8 * RETRY_BASE>>,
                          <<5, RETRY_CAP>> >>
    /\ hist.nUnexp = 1

-----------------------------------------------------------------------------
\* C18 as stated: whatever failures trigger the restarts, the delay (without
\* jitter) before a restart is greater than the delay before the one ahead
\* of it.
C18_DelayStrictlyIncreasing ==
    \A k \in 2..Len(delays) : delays[k] > delays[k - 1]

\* C18 amended: the delay before the restart that follows run attempt k is
\* 5.0 s times k when a retryable APIError ended the attempt, and 3.0 s
\* whatever k when an unexpected exception ended it.
C18_DelayLinearForApiFlatForUnexpected ==
    /\ [](\A k \in 1..Len(delays) :
             delays[k] = RUN_DELAY_API * k \/ delays[k] = RUN_DELAY_EXC)
    /\ [][delays' # delays /\ runno' = runno =>
            /\ pc = "ABORT"
            /\ run_attempt = Len(delays) + 1
            /\ delays' = Append(delays, IF pending.kind = "api"
                                        THEN RUN_DELAY_API * run_attempt
                                        ELSE RUN_DELAY_EXC)]_vars

C18_Witness ==
    /\ delays = <<RUN_DELAY_EXC, 2 * RUN_DELAY_API>>
    /\ run_attempt = 3

-----------------------------------------------------------------------------
(* Reads before writes.                                                    *)

ReadStates == {"AUTHENTICATE", "OPEN_SOURCE", "OPEN_DEST", "READ_HEADERS", "READ_DATA",
               "INFER_ROW_COUNT", "COERCE_ROWS"}
MutatingStates == {"CLEAR_DEST", "EXPAND_DEST", "WRITE_HEADER", "WRITE_DATA"}

\* both sheets are open, every header and the data have been read
ReadsDone ==
    /\ {"wks_src", "wks_dst"} \subseteq handles
    /\ Len(headers) = NMap
    /\ Len(data_cols) = NMap
    /\ Len(treated_matrix) = num_rows_data

\* C19: no call that changes the destination is issued in a run attempt
\* before both sheets are open and every header and the data have been read;
\* a step of an attempt that is still reading, or that failed, leaves the
\* destination's cells and size alone, so an attempt that fails up to
\* COERCE_ROWS leaves the destination as it found it.
C19_ReadsBeforeWrites ==
    /\ [](pc \in ReadStates => oplog = <<>>)
    /\ [](pc \in MutatingStates \/ oplog # <<>> => ReadsDone)
    /\ []((runno = 1 /\ run_attempt = 1 /\ pc \in ReadStates \cup {"ABORT"} /\ oplog = <<>>)
            => dst \in Destinations)
    /\ [][dst' # dst => (pc \in MutatingStates /\ ReadsDone /\ Len(oplog') = Len(oplog) + 1)]_vars
    /\ [][(pc \in ReadStates \cup {"CLEAR_META", "ABORT"}) => dst' = dst]_vars

C19_Witness ==
    /\ pc = "ABORT"
    /\ oplog = <<>>
    /\ run_attempt = 2
    /\ Len(headers) = NMap
    /\ data_cols = <<>>
    /\ dst \notin Destinations

-----------------------------------------------------------------------------
(* Writes stay inside the grid.                                            *)

IsUpdateOp(o) == o.op = "update"

\* the last row of the batch the loop is about to write
NextChunkEnd == start_row_dst + Min(BATCH_ROWS, num_rows_data - i) - 1

\* C20: once auto_expand_rows has returned the destination has at least
\* N + 3 rows, and the header update and every data batch of the attempt
\* address rows from 2 to N + 2, none beyond the last row of the grid.
C20_WritesInsideGrid ==
    /\ [](pc \in {"WRITE_HEADER", "WRITE_DATA", "DONE"}
            => /\ dst.rows >= num_rows_data + DEST_DATA_START_ROW
               /\ HeaderRange.r1 = DEST_HEADER_ROW /\ HeaderRange.r2 <= dst.rows
               /\ \A k \in 1..Len(oplog) :
                     IsUpdateOp(oplog[k]) => /\ oplog[k].r1 >= DEST_HEADER_ROW
                                             /\ oplog[k].r2 <= num_rows_data + 2
                                             /\ oplog[k].r2 <= dst.rows)
    /\ [](pc = "WRITE_DATA" => /\ start_row_dst >= DEST_DATA_START_ROW
                               /\ NextChunkEnd <= num_rows_data + 2
                               /\ NextChunkEnd <= dst.rows)
    /\ [][(pc \in {"WRITE_HEADER", "WRITE_DATA"}) => dst'.rows = dst.rows]_vars

C20_Witness ==
    /\ pc = "DONE"
    /\ num_rows_data = MAX_ROWS_SCAN
    /\ Len(oplog) >= 2
    /\ IsAddOp(oplog[2])
    /\ oplog[2].n = num_rows_data + 2
    /\ dst.rows = num_rows_data + 3
====
